---- MODULE Spec2Model ----
(***************************************************************************)
(* Model of the race-identifier crawler of direct-race-scraper.py:         *)
(* is_valid_race (the existence probe), generate_race_ids_efficiently      *)
(* (the pruning traversal), scrape_races_by_id_pattern_efficient (progress *)
(* file, item loop, batches) and save_intermediate_results (snapshots).    *)
(*                                                                         *)
(* Identifiers are sequences of decimal digits, built as the f-strings of  *)
(* the source build them.  The remote site is a fixed but initially        *)
(* unknown function from identifiers to Present/Absent, fixed at the first *)
(* successful probe of each identifier; a request can also fail            *)
(* transiently.  The process can be killed between any two steps, after    *)
(* which only the progress file and the snapshots survive.                 *)
(***************************************************************************)
EXTENDS Integers, Sequences, FiniteSets, TLC

(***************************************************************************)
(* Bounds of the model.  The source iterates over 6 meetings               *)
(* (range(1, 7)), 12 days and 12 races (range(2, 13)); the model iterates  *)
(* over 1..MaxKai, 1..MaxDay and 1..MaxRace.                               *)
(***************************************************************************)
MaxKai == 3

\* for kai in range(1, 7)
LastKai == 6

\* for day in range(2, 13)
LastDay == 12

\* for race_num in range(2, 13)
LastRace == 12

MaxDay == 3

MaxRace == 6

\* the site holds at most MaxPresent existing races
MaxPresent == 2

\* the same where the traversal alone is followed on a reliable network
MaxPresentTrav == 5

\* at most MaxFail requests fail transiently in a behaviour
MaxFail == 1

\* at most MaxRuns invocations of the program in a behaviour
MaxRuns == 2

\* the clock shows the seconds 0..MaxClock
MaxClock == 1

\* parse_args: --year default
DefaultYear == 2024

\* a progress file found at the start holds at most MaxLog lines
MaxLog == 3

\* --batch_size ranges over 1..MaxBatchSize
MaxBatchSize == 2

\* parse_args: --pause default
DefaultPause == 45

\* scrape_multiple_horses: max_retries default
DefaultMaxRetries == 2

\* horse_ids holds at most MaxHorses horse ids
MaxHorses == 2

\* max_retries ranges over 1..MaxAttempts
MaxAttempts == 2

\* parse_args: --max_races default; main turns it into None (no limit)
NoMaxRaces == 0

\* places is None (no --places given); argparse gives no empty list
None == <<>>

Range(s) == {s[i] : i \in DOMAIN s}

(***************************************************************************)
(* Identifier strings                                                      *)
(***************************************************************************)
RECURSIVE Str(_)
\* str(n) of a non-negative int: its decimal digits
Str(n) == IF n < 10 THEN <<n>> ELSE Str(n \div 10) \o <<n % 10>>

\* mutant: no padding
Zfill_NoPad(s, width) == s

\* s.zfill(width): pad on the left with zeros up to width, never truncate
Zfill(s, width) ==
    IF Len(s) >= width THEN s ELSE [i \in 1..(width - Len(s)) |-> 0] \o s

\* keys of PLACE_DICT, in insertion order
PLACE_DICT_keys ==
    << <<0, 1>>, <<0, 2>>, <<0, 3>>, <<0, 4>>, <<0, 5>>,
       <<0, 6>>, <<0, 7>>, <<0, 8>>, <<0, 9>>, <<1, 0>> >>

P05 == <<0, 5>>

P06 == <<0, 6>>

\* f"{year_str}{place_code}{str(kai).zfill(2)}0101"
FirstDayFirstRace(year_str, place_code, k) ==
    year_str \o place_code \o Zfill(Str(k), 2) \o <<0, 1, 0, 1>>

\* f"{year_str}{place_code}{str(kai).zfill(2)}01{str(race_num).zfill(2)}"
Day1RaceId(year_str, place_code, k, r) ==
    year_str \o place_code \o Zfill(Str(k), 2) \o <<0, 1>> \o Zfill(Str(r), 2)

\* f"{year_str}{place_code}{str(kai).zfill(2)}{str(day).zfill(2)}01"
FirstRaceOfDay(year_str, place_code, k, d) ==
    year_str \o place_code \o Zfill(Str(k), 2) \o Zfill(Str(d), 2) \o <<0, 1>>

\* f"{year_str}{place_code}{str(kai).zfill(2)}{str(day).zfill(2)}{str(race_num).zfill(2)}"
RaceId(year_str, place_code, k, d, r) ==
    year_str \o place_code \o Zfill(Str(k), 2) \o Zfill(Str(d), 2)
             \o Zfill(Str(r), 2)

\* race_id.startswith(prefix)
StartsWith(s, prefix) ==
    Len(s) >= Len(prefix) /\ SubSeq(s, 1, Len(prefix)) = prefix

RECURSIVE ParseInt(_)
\* int(s) of a string of decimal digits
ParseInt(s) == IF s = <<>> THEN 0 ELSE 10 * ParseInt(SubSeq(s, 1, Len(s) - 1)) + s[Len(s)]

\* place_code = race_id[4:6]
PlaceOf(race_id) == SubSeq(race_id, 5, 6)

\* kai = int(race_id[6:8])
KaiOf(race_id) == ParseInt(SubSeq(race_id, 7, 8))

\* day = int(race_id[8:10])
DayOf(race_id) == ParseInt(SubSeq(race_id, 9, 10))

\* race_num = int(race_id[10:12])
RaceOf(race_id) == ParseInt(SubSeq(race_id, 11, 12))

(***************************************************************************)
(* The existence probe                                                     *)
(***************************************************************************)
\* What session.get(url) can end in.  raised: the call raised (connection
\* error, time-out, or the retries on 429/500/502/503/504 exhausted);
\* otherwise a response with a status and a body, of which the probe reads
\* the not-found marker, the table race_table_01 and its number of rows.
RespRaised ==
    [raised |-> TRUE, status |-> 0, marker |-> FALSE, table |-> FALSE, rows |-> 0]

RespErrorStatus ==
    [raised |-> FALSE, status |-> 404, marker |-> FALSE, table |-> FALSE, rows |-> 0]

RespNotFoundPage ==
    [raised |-> FALSE, status |-> 200, marker |-> TRUE, table |-> FALSE, rows |-> 0]

RespNoTable ==
    [raised |-> FALSE, status |-> 200, marker |-> FALSE, table |-> FALSE, rows |-> 0]

RespHeaderOnly ==
    [raised |-> FALSE, status |-> 200, marker |-> FALSE, table |-> TRUE, rows |-> 1]

RespResults ==
    [raised |-> FALSE, status |-> 200, marker |-> FALSE, table |-> TRUE, rows |-> 2]

FailedResponses == {RespRaised, RespErrorStatus}

AbsentResponses == {RespNotFoundPage, RespNoTable, RespHeaderOnly}

\* is_valid_race: the boolean it returns for what session.get ended in
IsValidRace(resp) ==
    IF resp.raised THEN FALSE
    ELSE IF resp.marker THEN FALSE
    ELSE IF ~resp.table THEN FALSE
    ELSE IF resp.rows <= 1 THEN FALSE
    ELSE TRUE


\* The verdict of section 4.2 for what session.get ended in
Verdict(resp) ==
    IF resp.raised \/ resp.status \div 100 # 2 THEN "Unknown"
    ELSE IF resp.marker \/ ~resp.table \/ resp.rows <= 1 THEN "Absent"
    ELSE "Present"

(***************************************************************************)
(* State                                                                   *)
(***************************************************************************)
VARIABLES
    progress_file,   \* keiba_data/race_scraping_progress_{year}.txt: its lines
    progress_exists, \* os.path.exists(progress_file)
    backup_file,     \* the lines of {progress_file}.bak
    filtered_lines,  \* main: the lines the reset has yet to write
    snapshots,       \* the files written by save_intermediate_results
    outputs,         \* the files written by main when the run has ended
    site,            \* the remote site: identifier -> "Present" | "Absent"
    fetch_site,      \* what scrape_race_results gets for an identifier
    network,         \* "reliable": no request fails; "unreliable": some do
    fail_count,      \* transient request failures so far
    site_cap,        \* the number of existing races the site holds at most
    run,             \* invocations of the program so far
    pc,              \* position of the running invocation
    crashed,         \* the invocation was killed
    places,          \* --places: None or a list of place codes
    max_races,       \* --max_races
    batch_size,
    pause_between_batches, \* --pause
    reset_progress,  \* --reset_progress
    skip_ids,        \* scrape_races_by_id_pattern_efficient: skip_ids
    to_write,        \* lines the rewrite of the progress file has yet to write
    place_idx,       \* generate_race_ids_efficiently: position in places
    kai,
    day,
    race_num,
    valid_race_ids,
    idx,             \* position of the item loop in valid_race_ids
    processed_count,
    valid_count,
    batch_count,
    all_results,
    all_race_infos,
    probes,          \* history: the calls of is_valid_race of this invocation
    fetched,         \* history: completed scrape_race_results calls
    appended,        \* history: identifiers this invocation appended
    log0,            \* history: the progress file when the invocation started
    prev,            \* history: the previous invocation, if killed in its item loop
    now,             \* the clock, in seconds
    saved,           \* history: the names of the files save_intermediate_results wrote
    pauses,          \* history: processed_count at each pause between batches
    raised,          \* history: what raised the exception the item loop caught
    \* fixed-horse-scraper.py, scrape_multiple_horses:
    horse_ids,
    include_training,
    max_retries,
    skip_existing,
    existing_horse_ids,
    h_pc,            \* position of scrape_multiple_horses
    h_idx,           \* position of its loops in horse_ids
    retries,
    horse_info,
    horse_history,
    all_horse_info,
    all_horse_history,
    all_horse_training,
    processed_horses,
    skipped_count,
    info_calls,      \* history: the calls of scrape_horse_info
    history_calls,   \* history: the calls of scrape_horse_history
    marked           \* history: the horse ids added to processed_horses

durable == <<progress_file, progress_exists, snapshots, outputs>>
reset_state == <<backup_file, filtered_lines>>
env     == <<site, fetch_site, network, fail_count, site_cap>>
args    == <<places, max_races, batch_size, pause_between_batches, reset_progress>>
sched   == <<now, saved, pauses, raised>>
horse   == <<horse_ids, include_training, max_retries, skip_existing,
             existing_horse_ids, h_pc, h_idx, retries, horse_info,
             horse_history, all_horse_info, all_horse_history,
             all_horse_training, processed_horses, skipped_count, info_calls,
             history_calls, marked>>
counts  == <<processed_count, valid_count, batch_count, all_results, all_race_infos>>
vars    == <<progress_file, progress_exists, backup_file, filtered_lines,
             reset_progress, snapshots, site, fetch_site, network, fail_count,
             site_cap,
             run, pc,
             crashed, places, max_races, batch_size, skip_ids, to_write,
             place_idx, kai, day, race_num, valid_race_ids, idx,
             processed_count, valid_count, batch_count, all_results,
             all_race_infos, probes, fetched, appended, log0, prev,
             outputs, pause_between_batches, now, saved, pauses, raised,
             horse>>

\* the variables of direct-race-scraper.py
race    == <<reset_state, durable, env, args, sched, run, pc, crashed,
             skip_ids, to_write, place_idx, kai, day, race_num,
             valid_race_ids, idx, counts, probes, fetched, appended, log0,
             prev>>

year_str == Str(DefaultYear)

\* the values --places takes in the model: one place, two places
PlaceArgs == {<<P05>>, <<P05, P06>>}

\* the values --places takes in the traversal alone
TravPlaceArgs == {None, <<P05>>, <<P05, P06>>, <<P05, P05>>}

\* the values --max_races takes in the model
MaxRacesArgs == {NoMaxRaces, 1}

BatchSizeArgs == 1..MaxBatchSize

\* the positions of the item loop
LoopPcs == {"loop_head", "scrape", "record", "batch"}

NoPrev == [places |-> None, interrupted |-> FALSE, ids0 |-> {}]

\* what scrape_horse_info and scrape_horse_history return when they fail
NoResult == "None"

\* scrape_multiple_horses has not been called
InitHorse ==
    /\ horse_ids = <<>>
    /\ include_training = FALSE
    /\ max_retries = DefaultMaxRetries
    /\ skip_existing = FALSE
    /\ existing_horse_ids = {}
    /\ h_pc = "idle"
    /\ h_idx = 1
    /\ retries = 0
    /\ horse_info = NoResult
    /\ horse_history = NoResult
    /\ all_horse_info = <<>>
    /\ all_horse_history = <<>>
    /\ all_horse_training = <<>>
    /\ processed_horses = {}
    /\ skipped_count = 0
    /\ info_calls = <<>>
    /\ history_calls = <<>>
    /\ marked = <<>>

\* no snapshot and no backup file exist, nothing has been done
InitEmpty ==
    /\ backup_file = <<>>
    /\ filtered_lines = <<>>
    /\ reset_progress = FALSE
    /\ snapshots = {}
    /\ outputs = {}
    /\ site = <<>>
    /\ fetch_site = <<>>
    /\ fail_count = 0
    /\ run = 0
    /\ crashed = FALSE
    /\ skip_ids = {}
    /\ to_write = {}
    /\ place_idx = 1
    /\ valid_race_ids = <<>>
    /\ idx = 1
    /\ processed_count = 0
    /\ valid_count = 0
    /\ batch_count = 0
    /\ all_results = <<>>
    /\ all_race_infos = <<>>
    /\ probes = <<>>
    /\ fetched = <<>>
    /\ appended = <<>>
    /\ log0 = progress_file
    /\ prev = NoPrev
    /\ now = 0
    /\ saved = <<>>
    /\ pauses = <<>>
    /\ raised = "none"
    /\ InitHorse

\* nothing is running
InitProcess ==
    /\ InitEmpty
    /\ pc = "idle"
    /\ places = None
    /\ kai = 1
    /\ day = 1
    /\ race_num = 1

\* the same with no progress file
InitFiles ==
    /\ progress_file = <<>>
    /\ progress_exists = FALSE
    /\ InitProcess

\* The identifiers found in a progress file at the start: two races of
\* place 05 and two of place 06, in the order of the traversal
LogIds ==
    << RaceId(year_str, P05, 1, 1, 1), RaceId(year_str, P05, 1, 1, 2),
       RaceId(year_str, P06, 1, 1, 1), RaceId(year_str, P06, 1, 1, 2) >>

\* The progress files earlier invocations can have left: up to MaxLog
\* lines, no identifier twice, the identifiers of one place in the order of
\* the traversal, the places interleaved in any way
InitLogs ==
    UNION { { [i \in 1..n |-> LogIds[f[i]]] :
                f \in { g \in [1..n -> DOMAIN LogIds] :
                          \A i, j \in 1..n :
                              i < j => /\ g[i] # g[j]
                                       /\ PlaceOf(LogIds[g[i]]) = PlaceOf(LogIds[g[j]])
                                             => g[i] < g[j] } }
            : n \in 0..MaxLog }

\* a progress file left by earlier invocations, or none
InitReset ==
    /\ progress_file \in InitLogs
    /\ progress_exists \in (IF progress_file = <<>> THEN BOOLEAN ELSE {TRUE})
    /\ InitProcess
    /\ network = "reliable"
    /\ site_cap = MaxPresent
    /\ max_races = NoMaxRaces
    /\ batch_size = MaxBatchSize
    /\ pause_between_batches = DefaultPause

\* One place and one (meeting, day, race) of the loops of
\* generate_race_ids_efficiently, with no bound on the loops
InitCodec ==
    /\ progress_file = <<>>
    /\ progress_exists = FALSE
    /\ InitEmpty
    /\ pc = "build"
    /\ places \in {<<p>> : p \in Range(PLACE_DICT_keys)}
    /\ kai \in 1..LastKai
    /\ day \in 1..LastDay
    /\ race_num \in 1..LastRace
    /\ network = "reliable"
    /\ site_cap = MaxPresent
    /\ max_races = NoMaxRaces
    /\ batch_size = MaxBatchSize
    /\ pause_between_batches = DefaultPause

\* no progress file, no snapshot, and a network on which no request fails
Init ==
    /\ InitFiles
    /\ network = "reliable"
    /\ site_cap = MaxPresent
    /\ max_races \in MaxRacesArgs
    /\ batch_size \in BatchSizeArgs
    /\ pause_between_batches = DefaultPause

\* the same with a network on which up to MaxFail requests fail
InitNet ==
    /\ InitFiles
    /\ network = "unreliable"
    /\ site_cap = MaxPresent
    /\ max_races = NoMaxRaces
    /\ batch_size = MaxBatchSize
    /\ pause_between_batches = DefaultPause

\* a reliable network and a site of up to MaxPresentTrav races
InitSite ==
    /\ InitFiles
    /\ network = "reliable"
    /\ site_cap = MaxPresentTrav
    /\ max_races = NoMaxRaces
    /\ batch_size = MaxBatchSize
    /\ pause_between_batches = DefaultPause

(***************************************************************************)
(* main and the start of scrape_races_by_id_pattern_efficient              *)
(***************************************************************************)
\* main is started with --places p, with or without --reset_progress; it
\* goes through the reset when asked to and places are given, and calls
\* scrape_races_by_id_pattern_efficient, which initialises its accumulators
\* and counters
StartMain(p, reset) ==
    /\ pc \in {"idle", "done", "ended"} \/ crashed
    /\ run < MaxRuns
    /\ run' = run + 1
    /\ places' = p
    /\ reset_progress' = reset
    /\ pc' = IF reset /\ p # None THEN "reset" ELSE "load"
    /\ crashed' = FALSE
    /\ skip_ids' = {}
    /\ to_write' = {}
    /\ place_idx' = 1 /\ kai' = 1 /\ day' = 1 /\ race_num' = 1
    /\ valid_race_ids' = <<>>
    /\ idx' = 1
    /\ processed_count' = 0 /\ valid_count' = 0 /\ batch_count' = 0
    /\ all_results' = <<>> /\ all_race_infos' = <<>>
    /\ probes' = <<>> /\ fetched' = <<>> /\ appended' = <<>>
    /\ log0' = progress_file
    /\ prev' = IF crashed /\ pc \in LoopPcs
               THEN [places |-> places, interrupted |-> TRUE,
                     ids0 |-> Range(log0)]
               ELSE NoPrev
    /\ saved' = <<>> /\ pauses' = <<>> /\ raised' = "none"
    /\ UNCHANGED <<horse, now, reset_state, durable, env, max_races, batch_size,
                   pause_between_batches>>

\* main without --reset_progress
StartWith(p) == StartMain(p, FALSE)

StartRun == \E p \in PlaceArgs : StartWith(p)

\* the first invocation, with --places absent, given once or given twice
StartTraversal == run = 0 /\ \E p \in TravPlaceArgs : StartWith(p)

(***************************************************************************)
(* main: the reset of the progress file asked for by --reset_progress      *)
(***************************************************************************)
\* place_code = race_id[4:6] if len(race_id) >= 6 else ""; the line is kept
\* if place_code not in places
KeptLine(race_id) ==
    (IF Len(race_id) >= 6 THEN SubSeq(race_id, 5, 6) ELSE <<>>)
        \notin Range(places)

\* if os.path.exists(progress_file) ... else: "No progress file found to
\* reset"
ResetNoFile ==
    /\ pc = "reset" /\ ~crashed
    /\ ~progress_exists
    /\ pc' = "load"
    /\ UNCHANGED <<horse, sched, reset_state, durable, env, run, crashed, args, skip_ids,
                   to_write, place_idx, kai, day, race_num, valid_race_ids,
                   idx, counts, probes, fetched, appended, log0, prev>>

\* os.rename(progress_file, backup_file): the progress file is gone from
\* its path and the backup file holds its lines
ResetRename ==
    /\ pc = "reset" /\ ~crashed
    /\ progress_exists
    /\ backup_file' = progress_file
    /\ progress_file' = <<>>
    /\ progress_exists' = FALSE
    /\ pc' = "reset_read"
    /\ UNCHANGED <<horse, sched, filtered_lines, snapshots, outputs, env, run, crashed, args,
                   skip_ids, to_write, place_idx, kai, day, race_num,
                   valid_race_ids, idx, counts, probes, fetched, appended,
                   log0, prev>>

\* The backup file is read, the lines of the places given are dropped, and
\* the progress file is opened for writing, which creates it empty
ResetOpen ==
    /\ pc = "reset_read" /\ ~crashed
    /\ filtered_lines' = SelectSeq(backup_file, KeptLine)
    /\ progress_file' = <<>>
    /\ progress_exists' = TRUE
    /\ pc' = "reset_write"
    /\ UNCHANGED <<horse, sched, backup_file, snapshots, outputs, env, run, crashed, args, skip_ids,
                   to_write, place_idx, kai, day, race_num, valid_race_ids,
                   idx, counts, probes, fetched, appended, log0, prev>>

\* f_out.writelines(filtered_lines): the lines reach the file in order
ResetWriteLine ==
    /\ pc = "reset_write" /\ ~crashed
    /\ filtered_lines # <<>>
    /\ progress_file' = Append(progress_file, Head(filtered_lines))
    /\ filtered_lines' = Tail(filtered_lines)
    /\ UNCHANGED <<horse, sched, backup_file, progress_exists, snapshots, outputs, env, run, pc,
                   crashed, args, skip_ids, to_write, place_idx, kai, day,
                   race_num, valid_race_ids, idx, counts, probes, fetched,
                   appended, log0, prev>>

\* the with block ends; scrape_races_by_id_pattern_efficient is called
ResetClose ==
    /\ pc = "reset_write" /\ ~crashed
    /\ filtered_lines = <<>>
    /\ pc' = "load"
    /\ UNCHANGED <<horse, sched, reset_state, durable, env, run, crashed, args, skip_ids,
                   to_write, place_idx, kai, day, race_num, valid_race_ids,
                   idx, counts, probes, fetched, appended, log0, prev>>

(***************************************************************************)
(* scrape_races_by_id_pattern_efficient: the progress file is loaded       *)
(***************************************************************************)
\* place_specific_ids / other_ids of the single-place branch
PlaceSpecificIds(ids, prefix) == {id \in ids : StartsWith(id, prefix)}

OtherIds(ids, prefix) == {id \in ids : ~StartsWith(id, prefix)}

\* if places and len(places) == 1 and len(place_specific_ids) > 0
ResetsPlace(pl, ids) ==
    /\ pl # None
    /\ Len(pl) = 1
    /\ PlaceSpecificIds(ids, year_str \o pl[1]) # {}

\* The progress file is read into skip_ids.  With exactly one place given
\* and entries of that place in the file, those entries leave skip_ids and
\* the file is opened for writing, which truncates it.
LoadProgress ==
    /\ pc = "load" /\ ~crashed
    /\ LET loaded == Range(progress_file) IN
       IF ResetsPlace(places, loaded)
       THEN /\ skip_ids' = OtherIds(loaded, year_str \o places[1])
            /\ to_write' = OtherIds(loaded, year_str \o places[1])
            /\ progress_file' = <<>>
            /\ pc' = "rewrite"
       ELSE /\ skip_ids' = loaded
            /\ pc' = "meeting_first"
            /\ UNCHANGED <<to_write, progress_file>>
    /\ UNCHANGED <<horse, sched, reset_state, progress_exists, snapshots, outputs, env, run, crashed,
                   args, place_idx, kai, day,
                   race_num, valid_race_ids, idx, counts, probes, fetched,
                   appended, log0, prev>>

\* for race_id in skip_ids: f.write(...) -- a set is iterated in no fixed order
RewriteLine ==
    /\ pc = "rewrite" /\ ~crashed
    /\ \E id \in to_write :
        /\ progress_file' = Append(progress_file, id)
        /\ to_write' = to_write \ {id}
    /\ UNCHANGED <<horse, sched, reset_state, progress_exists, snapshots, outputs, env, run, pc,
                   crashed, args, skip_ids, place_idx,
                   kai, day, race_num, valid_race_ids, idx, counts, probes,
                   fetched, appended, log0, prev>>

\* the with block of the rewrite ends; generate_race_ids_efficiently is called
RewriteDone ==
    /\ pc = "rewrite" /\ ~crashed
    /\ to_write = {}
    /\ pc' = "meeting_first"
    /\ UNCHANGED <<horse, sched, reset_state, durable, env, run, crashed, args, skip_ids, to_write,
                   place_idx, kai, day, race_num, valid_race_ids, idx, counts,
                   probes, fetched, appended, log0, prev>>

(***************************************************************************)
(* generate_race_ids_efficiently                                           *)
(***************************************************************************)
\* if places is None: places = list(PLACE_DICT.keys())
GenPlaces == IF places = None THEN PLACE_DICT_keys ELSE places

\* mutant: the places are gone through from the last one to the first
place_code_Reversed == GenPlaces[Len(GenPlaces) + 1 - place_idx]

\* the place of the running iteration of for place_code in places
place_code == GenPlaces[place_idx]

Ctl(s, p, k, d, r) == <<s, p, k, d, r>>

\* for place_code in places: the next place, or the end of the traversal
NextPlace(p) ==
    IF p + 1 <= Len(GenPlaces) THEN Ctl("meeting_first", p + 1, 1, 1, 1)
    ELSE Ctl("generated", p, 1, 1, 1)

\* mutant: the meeting loop goes one meeting further
NextMeeting_OneMore(p, k) ==
    IF k + 1 <= MaxKai + 1 THEN Ctl("meeting_first", p, k + 1, 1, 1)
    ELSE NextPlace(p)

\* for kai in range(1, 7): the next meeting, or the loop is exhausted
NextMeeting(p, k) ==
    IF k + 1 <= MaxKai THEN Ctl("meeting_first", p, k + 1, 1, 1)
    ELSE NextPlace(p)

\* mutant: the day loop goes up by two
NextDay_ByTwo(p, k, d) ==
    IF d + 2 <= MaxDay THEN Ctl("day_first", p, k, d + 2, 1)
    ELSE NextMeeting(p, k)

\* for day in range(2, 13): the next day, or the loop is exhausted
NextDay(p, k, d) ==
    IF d + 1 <= MaxDay THEN Ctl("day_first", p, k, d + 1, 1)
    ELSE NextMeeting(p, k)

\* for race_num in range(2, 13) of day 1; the day loop follows it
NextDay1Race(p, k, r) ==
    IF r + 1 <= MaxRace THEN Ctl("day1_race", p, k, 1, r + 1)
    ELSE NextDay(p, k, 1)

\* for race_num in range(2, 13) of days 2..12
NextRace(p, k, d, r) ==
    IF r + 1 <= MaxRace THEN Ctl("day_race", p, k, d, r + 1)
    ELSE NextDay(p, k, d)

\* mutant: the break is missing, the races of day 1 are probed all the same
BreakMeetingLoop_NoBreak(p, k) == NextDay1Race(p, k, 1)

\* mutant: continue instead of break, the next meeting is probed
BreakMeetingLoop_Continue(p, k) == NextMeeting(p, k)

\* break of the meeting loop: no more meetings at this place
BreakMeetingLoop(p, k) == NextPlace(p)

\* mutant: the day loop goes on with the next day
BreakDayLoop_NextDay(p, k, d) == NextDay(p, k, d)

\* break of the day loop: on to the next meeting
BreakDayLoop(p, k, d) == NextMeeting(p, k)

\* mutant: the days of the meeting are left as well
BreakDay1RaceLoop_NextMeeting(p, k, r) == NextMeeting(p, k)

\* break of the race loop of day 1: on to day 2
BreakDay1RaceLoop(p, k, r) == NextDay(p, k, 1)

\* mutant: the race loop goes on with the next race
BreakRaceLoop_NextRace(p, k, d, r) == NextRace(p, k, d, r)

\* break of the race loop of a later day: on to the next day
BreakRaceLoop(p, k, d, r) == NextDay(p, k, d)

PresentCount == Cardinality({id \in DOMAIN site : site[id] = "Present"})

\* What session.get can end in for race_id: the page the site has for it
\* (decided when the identifier is first reached), or a transient failure
SiteResponses(race_id) ==
    (IF race_id \in DOMAIN site
     THEN (IF site[race_id] = "Present" THEN {RespResults} ELSE AbsentResponses)
     ELSE AbsentResponses \cup
          (IF PresentCount < site_cap THEN {RespResults} ELSE {}))
    \cup (IF network = "unreliable" /\ fail_count < MaxFail
          THEN FailedResponses ELSE {})

\* One call of is_valid_race(race_id) and the branch taken on its result:
\* on True the identifier is appended to valid_race_ids and the loops go on
\* at onTrue; on False the loop named by loop is left and they go on at
\* onFalse
Probe(race_id, onTrue, onFalse, loop) ==
    \E resp \in SiteResponses(race_id) :
        LET ret == IsValidRace(resp)
            to  == IF ret THEN onTrue ELSE onFalse
        IN
        /\ probes' = Append(probes,
              [id |-> race_id, verdict |-> Verdict(resp), ret |-> ret,
               broke |-> IF ret THEN "none" ELSE loop, at |-> place_idx])
        /\ valid_race_ids' =
              IF ret THEN Append(valid_race_ids, race_id) ELSE valid_race_ids
        /\ pc' = to[1] /\ place_idx' = to[2] /\ kai' = to[3]
        /\ day' = to[4] /\ race_num' = to[5]
        /\ site' = IF resp \in FailedResponses \/ race_id \in DOMAIN site
                   THEN site
                   ELSE (race_id :> Verdict(resp)) @@ site
        /\ fail_count' = IF resp \in FailedResponses THEN fail_count + 1
                         ELSE fail_count
        /\ UNCHANGED <<horse, sched, reset_state, durable, fetch_site, network, site_cap, run, crashed, args,
                       skip_ids, to_write, idx, counts, fetched, appended,
                       log0, prev>>

\* the probe of the first race of the first day of meeting kai
ProbeMeetingFirst ==
    /\ pc = "meeting_first" /\ ~crashed
    /\ Probe(FirstDayFirstRace(year_str, place_code, kai),
             NextDay1Race(place_idx, kai, 1),
             BreakMeetingLoop(place_idx, kai), "meeting")

\* the probe of race race_num (2..12) of day 1
ProbeDay1Race ==
    /\ pc = "day1_race" /\ ~crashed
    /\ Probe(Day1RaceId(year_str, place_code, kai, race_num),
             NextDay1Race(place_idx, kai, race_num),
             BreakDay1RaceLoop(place_idx, kai, race_num), "race")

\* the probe of the first race of day day (2..12)
ProbeDayFirst ==
    /\ pc = "day_first" /\ ~crashed
    /\ Probe(FirstRaceOfDay(year_str, place_code, kai, day),
             NextRace(place_idx, kai, day, 1),
             BreakDayLoop(place_idx, kai, day), "day")

\* the probe of race race_num (2..12) of day day (2..12)
ProbeDayRace ==
    /\ pc = "day_race" /\ ~crashed
    /\ Probe(RaceId(year_str, place_code, kai, day, race_num),
             NextRace(place_idx, kai, day, race_num),
             BreakRaceLoop(place_idx, kai, day, race_num), "race")

(***************************************************************************)
(* The item loop of scrape_races_by_id_pattern_efficient                   *)
(***************************************************************************)
\* if not valid_race_ids: return None, [], []
NoValidRaceIds ==
    /\ pc = "generated" /\ ~crashed
    /\ valid_race_ids = <<>>
    /\ pc' = "done"
    /\ UNCHANGED <<horse, sched, reset_state, durable, env, run, crashed, args, skip_ids, to_write,
                   place_idx, kai, day, race_num, valid_race_ids, idx, counts,
                   probes, fetched, appended, log0, prev>>

\* the item loop is entered
EnterLoop ==
    /\ pc = "generated" /\ ~crashed
    /\ valid_race_ids # <<>>
    /\ pc' = "loop_head"
    /\ idx' = 1
    /\ UNCHANGED <<horse, sched, reset_state, durable, env, run, crashed, args, skip_ids, to_write,
                   place_idx, kai, day, race_num, valid_race_ids, counts,
                   probes, fetched, appended, log0, prev>>

\* mutant: break instead of continue, the loop ends at the first skipped item
SkipItem_Break ==
    /\ pc = "loop_head" /\ ~crashed
    /\ idx <= Len(valid_race_ids)
    /\ valid_race_ids[idx] \in skip_ids
    /\ pc' = "done"
    /\ UNCHANGED <<horse, sched, reset_state, durable, env, run, crashed, args, skip_ids, to_write,
                   place_idx, kai, day, race_num, valid_race_ids, idx, counts,
                   probes, fetched, appended, log0, prev>>

\* if race_id in skip_ids: continue
SkipItem ==
    /\ pc = "loop_head" /\ ~crashed
    /\ idx <= Len(valid_race_ids)
    /\ valid_race_ids[idx] \in skip_ids
    /\ idx' = idx + 1
    /\ UNCHANGED <<horse, sched, reset_state, durable, env, run, pc, crashed, args, skip_ids, to_write,
                   place_idx, kai, day, race_num, valid_race_ids, counts,
                   probes, fetched, appended, log0, prev>>

\* mutant: the identifier is written to the progress file when its
\* processing starts
BeginItem_Append ==
    /\ pc = "loop_head" /\ ~crashed
    /\ idx <= Len(valid_race_ids)
    /\ valid_race_ids[idx] \notin skip_ids
    /\ processed_count' = processed_count + 1
    /\ progress_file' = Append(progress_file, valid_race_ids[idx])
    /\ progress_exists' = TRUE
    /\ appended' = Append(appended, valid_race_ids[idx])
    /\ pc' = "scrape"
    /\ UNCHANGED <<horse, sched, reset_state, snapshots, outputs, env, run, crashed, args, skip_ids, to_write,
                   place_idx, kai, day, race_num, valid_race_ids, idx,
                   valid_count, batch_count, all_results, all_race_infos,
                   probes, fetched, log0, prev>>

\* processed_count += 1 (and the random wait every tenth item)
BeginItem ==
    /\ pc = "loop_head" /\ ~crashed
    /\ idx <= Len(valid_race_ids)
    /\ valid_race_ids[idx] \notin skip_ids
    /\ processed_count' = processed_count + 1
    /\ pc' = "scrape"
    /\ UNCHANGED <<horse, sched, reset_state, durable, env, run, crashed, args, skip_ids, to_write,
                   place_idx, kai, day, race_num, valid_race_ids, idx,
                   valid_count, batch_count, all_results, all_race_infos,
                   probes, fetched, appended, log0, prev>>

\* What scrape_race_results returns: (df, race_info), (None, race_info)
\* when no result table can be read from the page, (None, {}) when the
\* request fails or the status is not 200
FetchOutcomes == {"df", "no_table", "error"}

\* result, race_info = scrape_race_results(race_id); the counters and the
\* accumulators are updated
ScrapeRaceResults ==
    /\ pc = "scrape" /\ ~crashed
    /\ LET race_id == valid_race_ids[idx] IN
       \E out \in (IF race_id \in DOMAIN fetch_site
                   THEN {fetch_site[race_id]} ELSE FetchOutcomes) :
        /\ fetch_site' = IF race_id \in DOMAIN fetch_site THEN fetch_site
                         ELSE (race_id :> out) @@ fetch_site
        /\ IF out = "df"
           THEN /\ valid_count' = valid_count + 1
                /\ batch_count' = batch_count + 1
                /\ all_results' = Append(all_results, race_id)
           ELSE UNCHANGED <<valid_count, batch_count, all_results>>
        /\ all_race_infos' = IF out # "error"
                             THEN Append(all_race_infos, race_id)
                             ELSE all_race_infos
        /\ fetched' = Append(fetched, race_id)
    /\ pc' = "record"
    /\ UNCHANGED <<horse, sched, reset_state, durable, site, network, fail_count, site_cap, run, crashed,
                   args, skip_ids,
                   to_write, place_idx, kai, day, race_num, valid_race_ids,
                   idx, processed_count, probes, appended, log0, prev>>

\* mutant: only an identifier that gave a result is written
AppendProgress_OnlyResults ==
    /\ pc = "record" /\ ~crashed
    /\ IF fetch_site[valid_race_ids[idx]] = "df"
       THEN /\ progress_file' = Append(progress_file, valid_race_ids[idx])
            /\ progress_exists' = TRUE
            /\ appended' = Append(appended, valid_race_ids[idx])
       ELSE UNCHANGED <<progress_file, progress_exists, appended>>
    /\ pc' = "batch"
    /\ UNCHANGED <<horse, sched, reset_state, snapshots, outputs, env, run, crashed, args, skip_ids,
                   to_write, place_idx, kai, day, race_num, valid_race_ids,
                   idx, counts, probes, fetched, log0, prev>>

\* with open(progress_file, 'a') as f: f.write(f"{race_id}\n")
AppendProgress ==
    /\ pc = "record" /\ ~crashed
    /\ progress_file' = Append(progress_file, valid_race_ids[idx])
    /\ progress_exists' = TRUE
    /\ appended' = Append(appended, valid_race_ids[idx])
    /\ pc' = "batch"
    /\ UNCHANGED <<horse, sched, reset_state, snapshots, outputs, env, run, crashed, args, skip_ids, to_write,
                   place_idx, kai, day, race_num, valid_race_ids, idx, counts,
                   probes, fetched, log0, prev>>

\* intermediate_races_{timestamp}_{count_index}.csv and
\* intermediate_race_infos_{timestamp}_{count_index}.json: what tells the
\* files of one call of save_intermediate_results from those of another
SnapshotName(timestamp, count_index) == <<timestamp, count_index>>

\* save_intermediate_results(results, race_infos, count_index) at the second
\* timestamp: the files are written under their names, replacing files of
\* the same names
SaveIntermediateResults(snaps, results, race_infos, count_index, timestamp) ==
    {s \in snaps : s.name # SnapshotName(timestamp, count_index)}
        \cup {[name |-> SnapshotName(timestamp, count_index),
                results |-> results, race_infos |-> race_infos]}

\* mutant: only the latest result is saved
SaveIfResults_LatestOnly(snaps, timestamp) ==
    IF all_results # <<>>
    THEN SaveIntermediateResults(snaps, <<all_results[Len(all_results)]>>,
                                 all_race_infos, processed_count, timestamp)
    ELSE snaps

\* if all_results: save_intermediate_results(all_results, all_race_infos,
\* processed_count) -- the snapshot files after it
SaveIfResults(snaps, timestamp) ==
    IF all_results # <<>>
    THEN SaveIntermediateResults(snaps, all_results, all_race_infos,
                                 processed_count, timestamp)
    ELSE snaps

\* the names written so far after it
NamesIfResults(names, timestamp) ==
    IF all_results # <<>>
    THEN Append(names, SnapshotName(timestamp, processed_count))
    ELSE names

\* main, after scrape_races_by_id_pattern_efficient has returned: races_df,
\* the race infos and the horse ids are written when races_df is not None
\* and not empty.  Their names carry the second main has reached, taken to
\* differ from one invocation to the next
SaveFinal(outs) ==
    IF all_results # <<>>
    THEN outs \cup {[results |-> all_results, race_infos |-> all_race_infos]}
    ELSE outs

\* the seconds the clock can show at a later reading within one step
Later(t) == {t} \cup (IF t < MaxClock THEN {t + 1} ELSE {})

\* mutant: the exception is swallowed where it is raised and the loop goes on
AppendProgressFails_GoesOn ==
    /\ pc = "record" /\ ~crashed
    /\ raised' = "append"
    /\ pc' = "batch"
    /\ UNCHANGED <<horse, now, saved, pauses, reset_state, durable, env, run, crashed,
                   args, skip_ids, to_write, place_idx, kai, day, race_num,
                   valid_race_ids, idx, counts, probes, fetched, appended,
                   log0, prev>>

\* open(progress_file, 'a') or the write raises OSError and the file is as
\* it was: the exception leaves the item loop for its handler (except
\* Exception), which saves the intermediate results when there are any and
\* returns
AppendProgressFails ==
    /\ pc = "record" /\ ~crashed
    /\ raised' = "append"
    /\ snapshots' = SaveIfResults(snapshots, now)
    /\ saved' = NamesIfResults(saved, now)
    /\ pc' = "done"
    /\ UNCHANGED <<horse, now, pauses, reset_state, progress_file, progress_exists,
                   outputs, env, run, crashed, args, skip_ids, to_write, place_idx,
                   kai, day, race_num, valid_race_ids, idx, counts, probes,
                   fetched, appended, log0, prev>>

\* main, after scrape_races_by_id_pattern_efficient has returned: the final
\* files are written when there are results, and the program ends
SaveFinalFiles ==
    /\ pc = "done" /\ ~crashed
    /\ outputs' = SaveFinal(outputs)
    /\ pc' = "ended"
    /\ UNCHANGED <<horse, sched, reset_state, progress_file, progress_exists,
                   snapshots, env, run, crashed, args, skip_ids, to_write,
                   place_idx, kai, day, race_num, valid_race_ids, idx, counts,
                   probes, fetched, appended, log0, prev>>

\* a second goes by
Tick ==
    /\ pc \in LoopPcs /\ ~crashed
    /\ now < MaxClock
    /\ now' = now + 1
    /\ UNCHANGED <<horse, saved, pauses, raised, reset_state, durable, env, run, pc,
                   crashed, args, skip_ids, to_write, place_idx, kai, day,
                   race_num, valid_race_ids, idx, counts, probes, fetched,
                   appended, log0, prev>>

\* mutant: the loop is left once valid_count has gone beyond max_races
ReachedMax_Beyond == max_races > 0 /\ valid_count > max_races

\* max_races = args.max_races if args.max_races > 0 else None;
\* if max_races is not None and valid_count >= max_races: break
ReachedMax == max_races > 0 /\ valid_count >= max_races

\* The end of an item: when batch_count has reached batch_size the
\* intermediate results are saved, the pause is taken and batch_count is
\* reset; then the loop is left when max_races is reached, or goes on
EndItem ==
    /\ pc = "batch" /\ ~crashed
    /\ IF batch_count >= batch_size /\ pause_between_batches < 0
       THEN \* time.sleep raises ValueError for a negative length: the
            \* handler of the item loop saves again and returns
            \E t \in Later(now) :
               /\ snapshots' = SaveIfResults(SaveIfResults(snapshots, now), t)
               /\ saved' = NamesIfResults(NamesIfResults(saved, now), t)
               /\ now' = t
               /\ raised' = "sleep"
               /\ pc' = "done" /\ idx' = idx
               /\ UNCHANGED <<batch_count, pauses>>
       ELSE /\ IF batch_count >= batch_size
               THEN /\ snapshots' = SaveIfResults(snapshots, now)
                    /\ saved' = NamesIfResults(saved, now)
                    /\ pauses' = Append(pauses, processed_count)
                    /\ batch_count' = 0
               ELSE UNCHANGED <<snapshots, saved, pauses, batch_count>>
            /\ IF ReachedMax
               THEN pc' = "done" /\ idx' = idx
               ELSE pc' = "loop_head" /\ idx' = idx + 1
            /\ UNCHANGED <<horse, now, raised>>
    /\ UNCHANGED <<horse, reset_state, progress_file, progress_exists,
                   outputs, env, run, crashed, args, skip_ids, to_write,
                   place_idx, kai, day, race_num, valid_race_ids,
                   processed_count, valid_count, all_results, all_race_infos,
                   probes, fetched, appended, log0, prev>>

\* the loop has gone through valid_race_ids: the function returns
LoopExit ==
    /\ pc = "loop_head" /\ ~crashed
    /\ idx > Len(valid_race_ids)
    /\ pc' = "done"
    /\ UNCHANGED <<horse, sched, reset_state, durable, env, run, crashed, args, skip_ids, to_write,
                   place_idx, kai, day, race_num, valid_race_ids, idx, counts,
                   probes, fetched, appended, log0, prev>>

\* the positions from the first write to the progress file on
WritingPcs == {"rewrite"} \cup LoopPcs

\* the positions of the reset of main after the rename
ResetPcs == {"reset_read", "reset_write"}

\* The process is killed between two steps (signal, power loss): only the
\* files survive.  A kill before the first write leaves the files as they
\* were when the invocation started.
Crash ==
    /\ pc \in WritingPcs \cup ResetPcs /\ ~crashed
    /\ crashed' = TRUE
    /\ UNCHANGED <<horse, sched, reset_state, durable, env, run, pc, args, skip_ids, to_write, place_idx,
                   kai, day, race_num, valid_race_ids, idx, counts, probes,
                   fetched, appended, log0, prev>>

Next ==
    \/ StartRun
    \/ LoadProgress
    \/ RewriteLine
    \/ RewriteDone
    \/ ProbeMeetingFirst
    \/ ProbeDay1Race
    \/ ProbeDayFirst
    \/ ProbeDayRace
    \/ NoValidRaceIds
    \/ EnterLoop
    \/ SkipItem
    \/ BeginItem
    \/ ScrapeRaceResults
    \/ AppendProgress
    \/ EndItem
    \/ LoopExit
    \/ Crash

Spec == Init /\ [][Next]_vars

\* one traversal on an unreliable network
Traversal ==
    \/ StartTraversal
    \/ LoadProgress
    \/ ProbeMeetingFirst
    \/ ProbeDay1Race
    \/ ProbeDayFirst
    \/ ProbeDayRace

SpecNet == InitNet /\ [][Traversal]_vars

\* one traversal of a larger site on a reliable network
SpecSite == InitSite /\ [][Traversal]_vars

\* The identifier of (place_code, kai, day, race_num) as the loop that
\* reaches it builds it
BuildId ==
    /\ pc = "build"
    /\ valid_race_ids' =
          << IF day = 1 /\ race_num = 1
             THEN FirstDayFirstRace(year_str, place_code, kai)
             ELSE IF day = 1
             THEN Day1RaceId(year_str, place_code, kai, race_num)
             ELSE IF race_num = 1
             THEN FirstRaceOfDay(year_str, place_code, kai, day)
             ELSE RaceId(year_str, place_code, kai, day, race_num) >>
    /\ pc' = "slice"
    /\ UNCHANGED <<horse, sched, reset_state, durable, env, run, crashed, args, skip_ids,
                   to_write, place_idx, kai, day, race_num, idx, counts,
                   probes, fetched, appended, log0, prev>>

\* scrape_race_results: place_code, kai, day and race_num are read from the
\* identifier and stored in the columns of the result
SliceId ==
    /\ pc = "slice"
    /\ all_results' =
          << [place_code  |-> PlaceOf(valid_race_ids[1]),
              kai         |-> KaiOf(valid_race_ids[1]),
              day         |-> DayOf(valid_race_ids[1]),
              race_number |-> RaceOf(valid_race_ids[1])] >>
    /\ pc' = "sliced"
    /\ UNCHANGED <<horse, sched, reset_state, durable, env, run, crashed, args, skip_ids,
                   to_write, place_idx, kai, day, race_num, valid_race_ids,
                   idx, processed_count, valid_count, batch_count,
                   all_race_infos, probes, fetched, appended, log0, prev>>

\* an identifier is built and read back
Codec == BuildId \/ SliceId

SpecCodec == InitCodec /\ [][Codec]_vars

\* one invocation with no progress file, from its start to its end
Once ==
    \/ StartTraversal
    \/ LoadProgress
    \/ ProbeMeetingFirst
    \/ ProbeDay1Race
    \/ ProbeDayFirst
    \/ ProbeDayRace
    \/ NoValidRaceIds
    \/ EnterLoop
    \/ BeginItem
    \/ ScrapeRaceResults
    \/ AppendProgress
    \/ EndItem
    \/ LoopExit

SpecOnce == Init /\ [][Once]_vars

\* invocations one after another, each killed or run to the end of main
Resume ==
    \/ StartRun
    \/ LoadProgress
    \/ RewriteLine
    \/ RewriteDone
    \/ ProbeMeetingFirst
    \/ ProbeDay1Race
    \/ ProbeDayFirst
    \/ ProbeDayRace
    \/ NoValidRaceIds
    \/ EnterLoop
    \/ SkipItem
    \/ BeginItem
    \/ ScrapeRaceResults
    \/ AppendProgress
    \/ EndItem
    \/ LoopExit
    \/ SaveFinalFiles
    \/ Crash

SpecResume == Init /\ [][Resume]_vars

\* the values --pause takes where the pauses are followed
PauseArgs == {-1, DefaultPause}

\* no progress file, a reliable network, and any --pause an int can be
InitSched ==
    /\ InitFiles
    /\ network = "reliable"
    /\ site_cap = MaxPresent
    /\ max_races \in MaxRacesArgs
    /\ batch_size \in BatchSizeArgs
    /\ pause_between_batches \in PauseArgs

\* one invocation while the clock goes on, with appends to the progress
\* file that can fail
Sched ==
    \/ StartTraversal
    \/ LoadProgress
    \/ ProbeMeetingFirst
    \/ ProbeDay1Race
    \/ ProbeDayFirst
    \/ ProbeDayRace
    \/ NoValidRaceIds
    \/ EnterLoop
    \/ BeginItem
    \/ ScrapeRaceResults
    \/ AppendProgress
    \/ AppendProgressFails
    \/ EndItem
    \/ LoopExit
    \/ SaveFinalFiles
    \/ Tick

SpecSched == InitSched /\ [][Sched]_vars

\* a place code that is no key of PLACE_DICT
P11 == <<1, 1>>

\* the values --places, --batch_size and --pause take where the options are
\* not all within their ranges: argparse asks for a str and for ints (type=)
\* and for nothing more
ConfigPlaceArgs == {<<P05>>, <<P11>>}

ConfigBatchSizeArgs == {0, 1}

InitConfig ==
    /\ InitFiles
    /\ network = "reliable"
    /\ site_cap = MaxPresent
    /\ max_races = NoMaxRaces
    /\ batch_size \in ConfigBatchSizeArgs
    /\ pause_between_batches \in PauseArgs

\* main is started with these options
StartConfig == run = 0 /\ \E p \in ConfigPlaceArgs : StartWith(p)

\* one invocation, whatever the options
Config ==
    \/ StartConfig
    \/ LoadProgress
    \/ ProbeMeetingFirst
    \/ ProbeDay1Race
    \/ ProbeDayFirst
    \/ ProbeDayRace
    \/ NoValidRaceIds
    \/ EnterLoop
    \/ BeginItem
    \/ ScrapeRaceResults
    \/ AppendProgress
    \/ EndItem
    \/ LoopExit

SpecConfig == InitConfig /\ [][Config]_vars

\* The first invocation, with or without --reset_progress
StartResetRun ==
    run = 0 /\ \E p \in TravPlaceArgs, reset \in BOOLEAN : StartMain(p, reset)

\* one invocation up to the call of generate_race_ids_efficiently: the
\* resets of the progress file
Resetting ==
    \/ StartResetRun
    \/ ResetNoFile
    \/ ResetRename
    \/ ResetOpen
    \/ ResetWriteLine
    \/ ResetClose
    \/ LoadProgress
    \/ RewriteLine
    \/ RewriteDone
    \/ Crash

SpecReset == InitReset /\ [][Resetting]_vars

(***************************************************************************)
(* fixed-horse-scraper.py: scrape_multiple_horses.  The slices of           *)
(* batch_size horse ids of its outer loop go through horse_ids in order;   *)
(* the position h_idx stands for the two loops.  The intermediate saves    *)
(* and the pauses between the slices are left out.                         *)
(***************************************************************************)
HorseIds == {"h1", "h2"}

\* the lists of 1..MaxHorses horse ids, a horse id possibly more than once
HorseIdLists == UNION {[1..n -> HorseIds] : n \in 1..MaxHorses}

\* scrape_multiple_horses(horse_ids, include_training, batch_size,
\* pause_between_batches, max_retries, skip_existing) is called; with
\* skip_existing the horse ids of the files found are loaded
StartHorses ==
    /\ h_pc = "idle"
    /\ horse_ids' \in HorseIdLists
    /\ include_training' \in BOOLEAN
    /\ max_retries' \in 1..MaxAttempts
    /\ skip_existing' \in BOOLEAN
    /\ existing_horse_ids' \in (IF skip_existing' THEN {{}, {"h1"}} ELSE {{}})
    /\ h_pc' = "horse"
    /\ h_idx' = 1
    /\ UNCHANGED <<race, retries, horse_info, horse_history, all_horse_info,
                   all_horse_history, all_horse_training, processed_horses,
                   skipped_count, info_calls, history_calls, marked>>

\* if horse_id in processed_horses or (skip_existing and horse_id in
\* existing_horse_ids)
SkipsHorse(horse_id) ==
    \/ horse_id \in processed_horses
    \/ skip_existing /\ horse_id \in existing_horse_ids

\* the horse is skipped: continue
SkipHorse ==
    /\ h_pc = "horse"
    /\ h_idx <= Len(horse_ids)
    /\ SkipsHorse(horse_ids[h_idx])
    /\ skipped_count' = IF horse_ids[h_idx] \in existing_horse_ids
                        THEN skipped_count + 1 ELSE skipped_count
    /\ h_idx' = h_idx + 1
    /\ UNCHANGED <<race, horse_ids, include_training, max_retries,
                   skip_existing, existing_horse_ids, h_pc, retries,
                   horse_info, horse_history, all_horse_info,
                   all_horse_history, all_horse_training, processed_horses,
                   info_calls, history_calls, marked>>

\* horse_info = None; retries = 0
BeginHorse ==
    /\ h_pc = "horse"
    /\ h_idx <= Len(horse_ids)
    /\ ~SkipsHorse(horse_ids[h_idx])
    /\ horse_info' = NoResult
    /\ retries' = 0
    /\ h_pc' = "info"
    /\ UNCHANGED <<race, horse_ids, include_training, max_retries,
                   skip_existing, existing_horse_ids, h_idx, horse_history,
                   all_horse_info, all_horse_history, all_horse_training,
                   processed_horses, skipped_count, info_calls, history_calls,
                   marked>>

\* mutant: one attempt more
MoreAttempts_OneMore(result) == result = NoResult /\ retries <= max_retries

\* while horse_info is None and retries < max_retries
MoreAttempts(result) == result = NoResult /\ retries < max_retries

\* horse_info = scrape_horse_info(horse_id, session); retries += 1
ScrapeHorseInfo ==
    /\ h_pc = "info"
    /\ MoreAttempts(horse_info)
    /\ \E result \in {NoResult, "info"} :
          /\ horse_info' = result
          /\ info_calls' = Append(info_calls,
                                  [horse_id |-> horse_ids[h_idx], result |-> result])
    /\ retries' = retries + 1
    /\ UNCHANGED <<race, horse_ids, include_training, max_retries,
                   skip_existing, existing_horse_ids, h_pc, h_idx,
                   horse_history, all_horse_info, all_horse_history,
                   all_horse_training, processed_horses, skipped_count,
                   history_calls, marked>>

\* the loop is left; if horse_info: all_horse_info.append(horse_info);
\* horse_history = None; retries = 0
EndHorseInfo ==
    /\ h_pc = "info"
    /\ ~MoreAttempts(horse_info)
    /\ all_horse_info' = IF horse_info # NoResult
                         THEN Append(all_horse_info, horse_ids[h_idx])
                         ELSE all_horse_info
    /\ horse_history' = NoResult
    /\ retries' = 0
    /\ h_pc' = "history"
    /\ UNCHANGED <<race, horse_ids, include_training, max_retries,
                   skip_existing, existing_horse_ids, h_idx, horse_info,
                   all_horse_history, all_horse_training, processed_horses,
                   skipped_count, info_calls, history_calls, marked>>

\* horse_history = scrape_horse_history(horse_id, session); retries += 1
ScrapeHorseHistory ==
    /\ h_pc = "history"
    /\ MoreAttempts(horse_history)
    /\ \E result \in {NoResult, "df"} :
          /\ horse_history' = result
          /\ history_calls' = Append(history_calls,
                                     [horse_id |-> horse_ids[h_idx], result |-> result])
    /\ retries' = retries + 1
    /\ UNCHANGED <<race, horse_ids, include_training, max_retries,
                   skip_existing, existing_horse_ids, h_pc, h_idx, horse_info,
                   all_horse_info, all_horse_history, all_horse_training,
                   processed_horses, skipped_count, info_calls, marked>>

\* the loop is left; if horse_history is not None:
\* all_horse_history.append(horse_history); with include_training the
\* training is scraped once and appended when not None;
\* processed_horses.add(horse_id)
EndHorse ==
    /\ h_pc = "history"
    /\ ~MoreAttempts(horse_history)
    /\ all_horse_history' = IF horse_history # NoResult
                            THEN Append(all_horse_history, horse_ids[h_idx])
                            ELSE all_horse_history
    /\ \E training \in (IF include_training THEN {NoResult, "df"} ELSE {NoResult}) :
          all_horse_training' = IF training # NoResult
                                THEN Append(all_horse_training, horse_ids[h_idx])
                                ELSE all_horse_training
    /\ processed_horses' = processed_horses \cup {horse_ids[h_idx]}
    /\ marked' = Append(marked, horse_ids[h_idx])
    /\ h_idx' = h_idx + 1
    /\ h_pc' = "horse"
    /\ UNCHANGED <<race, horse_ids, include_training, max_retries,
                   skip_existing, existing_horse_ids, retries, horse_info,
                   horse_history, all_horse_info, skipped_count, info_calls,
                   history_calls>>

\* the loops have gone through horse_ids: return save_horse_results(...)
ReturnHorses ==
    /\ h_pc = "horse"
    /\ h_idx > Len(horse_ids)
    /\ h_pc' = "returned"
    /\ UNCHANGED <<race, horse_ids, include_training, max_retries,
                   skip_existing, existing_horse_ids, h_idx, retries,
                   horse_info, horse_history, all_horse_info,
                   all_horse_history, all_horse_training, processed_horses,
                   skipped_count, info_calls, history_calls, marked>>

Horses ==
    \/ StartHorses
    \/ SkipHorse
    \/ BeginHorse
    \/ ScrapeHorseInfo
    \/ EndHorseInfo
    \/ ScrapeHorseHistory
    \/ EndHorse
    \/ ReturnHorses

\* direct-race-scraper.py is not running
InitHorses ==
    /\ InitFiles
    /\ network = "reliable"
    /\ site_cap = MaxPresent
    /\ max_races = NoMaxRaces
    /\ batch_size = MaxBatchSize
    /\ pause_between_batches = DefaultPause

\* one call of scrape_multiple_horses
SpecHorse == InitHorses /\ [][Horses]_vars

\* the same, the call going on as long as it has a step to take
SpecHorseFair == SpecHorse /\ WF_vars(Horses)

(***************************************************************************)
(* Properties of scrape_multiple_horses                                    *)
(***************************************************************************)
\* the calls made for the horse
CallsFor(calls, horse_id) == {i \in DOMAIN calls : calls[i].horse_id = horse_id}

\* the horses for which a call was made
Called(calls) == {calls[i].horse_id : i \in DOMAIN calls}

\* at most max_retries calls per horse, none after the first call that
\* returned a result
BoundedCalls(calls) ==
    \A horse_id \in Called(calls) :
        /\ Cardinality(CallsFor(calls, horse_id)) <= max_retries
        /\ \A i, j \in CallsFor(calls, horse_id) :
              calls[i].result # NoResult => j <= i

\* the retry loop of the horse has been gone through: at least one call,
\* and either a result or max_retries calls
LoopDone(calls, horse_id) ==
    /\ CallsFor(calls, horse_id) # {}
    /\ \/ \E i \in CallsFor(calls, horse_id) : calls[i].result # NoResult
       \/ Cardinality(CallsFor(calls, horse_id)) = max_retries

\* The calls of scrape_horse_info and of scrape_horse_history are bounded;
\* a horse is added to processed_horses once, after both its loops, with or
\* without a result; a horse for which a call was made is added by the end
\* of its item; when the function has returned every horse of horse_ids not
\* skipped as existing has been processed
BoundedRetry ==
    /\ retries <= max_retries
    /\ BoundedCalls(info_calls)
    /\ BoundedCalls(history_calls)
    /\ \A i, j \in DOMAIN marked : i # j => marked[i] # marked[j]
    /\ Range(marked) = processed_horses
    /\ \A horse_id \in processed_horses :
          LoopDone(info_calls, horse_id) /\ LoopDone(history_calls, horse_id)
    /\ h_pc \in {"horse", "returned"} =>
          Called(info_calls) \cup Called(history_calls) \subseteq processed_horses
    /\ h_pc = "returned" =>
          \A i \in DOMAIN horse_ids :
              \/ skip_existing /\ horse_ids[i] \in existing_horse_ids
              \/ horse_ids[i] \in processed_horses

\* C30 (bounded retry in the horse crawler): for every horse not skipped,
\* scrape_horse_info is called at least once and at most max_retries times
\* and not again after its first result other than None, and the same for
\* scrape_horse_history; the horse is marked processed exactly once
\* afterwards, with or without a result; and whatever calls fail, the retry
\* loops end and the function returns.
BoundedRetryTerminates == []BoundedRetry /\ <>(h_pc = "returned")

\* every call for a horse failed, max_retries being more than 1, and the
\* horse was marked processed; the function has returned
WitnessBoundedRetry ==
    /\ h_pc = "returned"
    /\ max_retries > 1
    /\ \E horse_id \in processed_horses :
          /\ Cardinality(CallsFor(info_calls, horse_id)) = max_retries
          /\ \A i \in CallsFor(info_calls, horse_id) :
                info_calls[i].result = NoResult
          /\ \A i \in CallsFor(history_calls, horse_id) :
                history_calls[i].result = NoResult

(***************************************************************************)
(* Properties of the probe and of the traversal                            *)
(***************************************************************************)
\* a is the first race of the meeting of x, or the first race of the day
\* of x, and is not x itself
IsAncestor(a, x) ==
    /\ a # x
    /\ PlaceOf(a) = PlaceOf(x)
    /\ KaiOf(a) = KaiOf(x)
    /\ RaceOf(a) = 1
    /\ DayOf(a) = 1 \/ DayOf(a) = DayOf(x)

\* C1 (pruning invariant): in a traversal, no identifier is probed after
\* the first race of its meeting, or the first race of its day, was probed
\* and found Absent.
PruningInvariant ==
    \A i \in DOMAIN probes :
        (probes[i].verdict = "Absent" /\ RaceOf(probes[i].id) = 1)
            => \A j \in (i + 1)..Len(probes) :
                  ~IsAncestor(probes[i].id, probes[j].id)

\* a first race was found Absent and the traversal went on probing
WitnessPruningInvariant ==
    \E i \in DOMAIN probes :
        /\ probes[i].verdict = "Absent"
        /\ RaceOf(probes[i].id) = 1
        /\ i < Len(probes)

\* C2 (Unknown is never coerced into Absent): when the request of a probe
\* raised or ended in a non-2xx response, what is_valid_race returned
\* differs from what it returns for a page saying the race does not exist.
UnknownDistinctFromAbsent ==
    \A i \in DOMAIN probes :
        probes[i].verdict = "Unknown"
            => \A resp \in AbsentResponses : probes[i].ret # IsValidRace(resp)

\* C3 (Unknown does not prune): a probe whose request failed leaves no loop
\* of the traversal, and its identifier is not in the progress file.
UnknownDoesNotPrune ==
    \A i \in DOMAIN probes :
        probes[i].verdict = "Unknown"
            => /\ probes[i].broke = "none"
               /\ probes[i].id \notin Range(progress_file)

ProbedIds == {probes[i].id : i \in DOMAIN probes}

\* the identifiers of the year, by place, meeting, day and race
IdTable ==
    [pl \in Range(PLACE_DICT_keys), k \in 1..MaxKai, d \in 1..MaxDay,
     r \in 1..MaxRace |-> RaceId(year_str, pl, k, d, r)]

\* The identifiers that come next in line after the identifier id found
\* valid: the next race of its day; after a first race, the first race of the
\* next day; after the first race of a meeting, the first race of the next
\* meeting
Successors(id) ==
    LET pl == PlaceOf(id)
        k  == KaiOf(id)
        d  == DayOf(id)
        r  == RaceOf(id)
    IN (IF r < MaxRace THEN {IdTable[pl, k, d, r + 1]} ELSE {})
       \cup (IF r = 1 /\ d < MaxDay THEN {IdTable[pl, k, d + 1, 1]} ELSE {})
       \cup (IF r = 1 /\ d = 1 /\ k < MaxKai
             THEN {IdTable[pl, k + 1, 1, 1]} ELSE {})

\* The identifiers to attempt, found being the identifiers found valid: the
\* first race of the first meeting of each place, and the successors of the
\* identifiers found valid
Attempted(found) ==
    {IdTable[GenPlaces[p], 1, 1, 1] : p \in DOMAIN GenPlaces}
        \cup UNION {Successors(id) : id \in found}

\* C9 (meeting-level pruning): when the first race of the first day of
\* meeting m of a place is Absent, no identifier of a later meeting of that
\* place is probed; and whether an identifier is probed depends only on the
\* identifier before it in its own loop at its own place having been found
\* valid, so that the probes of the earlier meetings and of the other places
\* are not affected.
MeetingLevelPruning ==
    /\ \A i \in DOMAIN probes :
          ( /\ probes[i].verdict = "Absent"
            /\ DayOf(probes[i].id) = 1 /\ RaceOf(probes[i].id) = 1 )
          => \A j \in DOMAIN probes :
                PlaceOf(probes[j].id) = PlaceOf(probes[i].id)
                    => KaiOf(probes[j].id) <= KaiOf(probes[i].id)
    /\ pc = "generated" => ProbedIds = Attempted(Range(valid_race_ids))

\* meeting 1 of place 05 was found Absent and place 06 was probed after it
WitnessMeetingLevelPruning ==
    /\ pc = "generated"
    /\ \E i, j \in DOMAIN probes :
        /\ i < j
        /\ probes[i].verdict = "Absent"
        /\ probes[i].id = FirstDayFirstRace(year_str, P05, 1)
        /\ PlaceOf(probes[j].id) = P06
        /\ probes[j].ret

\* C10 (day-level pruning): when the first race of day d >= 2 of meeting m
\* is Absent, no later race of day d and no race of a later day of meeting m
\* is probed, and while m is not the last meeting the next probe is the
\* first race of the first day of meeting m + 1 of the same place.
DayLevelPruning ==
    \A i \in DOMAIN probes :
        LET id == probes[i].id IN
        (probes[i].verdict = "Absent" /\ RaceOf(id) = 1 /\ DayOf(id) >= 2)
        => /\ \A j \in DOMAIN probes :
                (PlaceOf(probes[j].id) = PlaceOf(id)
                    /\ KaiOf(probes[j].id) = KaiOf(id))
                => \/ DayOf(probes[j].id) < DayOf(id)
                   \/ probes[j].id = id
           /\ KaiOf(id) < MaxKai =>
                IF i < Len(probes)
                THEN probes[i + 1].id
                        = FirstDayFirstRace(year_str, PlaceOf(id), KaiOf(id) + 1)
                ELSE /\ pc = "meeting_first"
                     /\ place_code = PlaceOf(id)
                     /\ kai = KaiOf(id) + 1

\* the first race of a day >= 2 of a meeting that is not the last one was
\* found Absent, and a probe followed
WitnessDayLevelPruning ==
    \E i \in DOMAIN probes :
        /\ probes[i].verdict = "Absent"
        /\ RaceOf(probes[i].id) = 1
        /\ DayOf(probes[i].id) >= 2
        /\ KaiOf(probes[i].id) < MaxKai
        /\ i < Len(probes)

\* C11 (race-level pruning): when race r >= 2 of a day is Absent, no later
\* race of that day is probed, and while the day is not the last one the next
\* probe is the first race of the next day of the same meeting; day 1
\* included.
RaceLevelPruning ==
    \A i \in DOMAIN probes :
        LET id == probes[i].id IN
        (probes[i].verdict = "Absent" /\ RaceOf(id) >= 2)
        => /\ \A j \in DOMAIN probes :
                (PlaceOf(probes[j].id) = PlaceOf(id)
                    /\ KaiOf(probes[j].id) = KaiOf(id)
                    /\ DayOf(probes[j].id) = DayOf(id))
                => RaceOf(probes[j].id) <= RaceOf(id)
           /\ DayOf(id) < MaxDay =>
                IF i < Len(probes)
                THEN probes[i + 1].id
                        = FirstRaceOfDay(year_str, PlaceOf(id), KaiOf(id),
                                         DayOf(id) + 1)
                ELSE /\ pc = "day_first"
                     /\ place_code = PlaceOf(id)
                     /\ kai = KaiOf(id)
                     /\ day = DayOf(id) + 1

\* a race that is not the first of its day (day 1, and a later day) was
\* found Absent before the last race, and a probe followed
WitnessRaceLevelPruning ==
    /\ \E i \in DOMAIN probes :
        /\ probes[i].verdict = "Absent"
        /\ RaceOf(probes[i].id) \in 2..(MaxRace - 1)
        /\ DayOf(probes[i].id) = 1
        /\ i < Len(probes)
    /\ \E i \in DOMAIN probes :
        /\ probes[i].verdict = "Absent"
        /\ RaceOf(probes[i].id) \in 2..(MaxRace - 1)
        /\ DayOf(probes[i].id) \in 2..(MaxDay - 1)
        /\ i < Len(probes)

\* The scenario of place 05 alone: races 1..5 of day 1 of meeting 1 exist,
\* race 6 does not, nor does the first race of day 2 of meeting 1, nor the
\* first race of meeting 2.  The identifiers in the order they are to be
\* probed, and what the site holds for them
ScenarioIds ==
    [r \in 1..6 |-> Day1RaceId(year_str, P05, 1, r)]
        \o << FirstRaceOfDay(year_str, P05, 1, 2),
              FirstDayFirstRace(year_str, P05, 2) >>

ScenarioSite ==
    [i \in 1..8 |-> IF i <= 5 THEN "Present" ELSE "Absent"]

\* the traversal is one of place 05 alone and the site has shown nothing
\* that differs from the scenario
InScenario ==
    /\ places = <<P05>>
    /\ pc \in {"meeting_first", "day1_race", "day_first", "day_race", "generated"}
    /\ \A i \in DOMAIN ScenarioIds :
          ScenarioIds[i] \in DOMAIN site => site[ScenarioIds[i]] = ScenarioSite[i]

\* C12 (end-to-end scenario): in the scenario the calls of is_valid_race are
\* made for the 8 identifiers in order and for nothing else, never for a
\* meeting from 3 on; when the traversal has ended there were exactly 8 calls
\* and the identifiers returned are exactly those of races 1..5 of day 1 of
\* meeting 1.
EndToEndScenario ==
    InScenario =>
        /\ Len(probes) <= 8
        /\ \A i \in DOMAIN probes :
              probes[i].id = ScenarioIds[i] /\ KaiOf(probes[i].id) <= 2
        /\ pc = "generated" =>
              /\ Len(probes) = 8
              /\ valid_race_ids = SubSeq(ScenarioIds, 1, 5)

\* the traversal of the scenario has ended, with further meetings, days and
\* races left unprobed
WitnessEndToEndScenario ==
    /\ InScenario
    /\ pc = "generated"
    /\ MaxKai >= 3 /\ MaxDay >= 3 /\ MaxRace >= 6

\* the calls of is_valid_race made in the iteration p of the loop over places
ProbesAt(p) == {i \in DOMAIN probes : probes[i].at = p}

EmittedPrefixClosed ==
    \A i \in DOMAIN valid_race_ids :
        LET id == valid_race_ids[i]
            pl == PlaceOf(id)
            k  == KaiOf(id)
            d  == DayOf(id)
            r  == RaceOf(id)
        IN /\ \E j \in DOMAIN probes :
                 /\ probes[j].id = id
                 /\ probes[j].ret
                 /\ probes[j].verdict = "Present"
           /\ r > 1 => RaceId(year_str, pl, k, d, r - 1) \in Range(valid_race_ids)
           /\ d > 1 => RaceId(year_str, pl, k, d - 1, 1) \in Range(valid_race_ids)
           /\ k > 1 => RaceId(year_str, pl, k - 1, 1, 1) \in Range(valid_race_ids)

\* the traversal has returned a race after the first of a day after the
\* first, and the first race of a second meeting
WitnessEmittedPrefixClosed ==
    /\ pc = "generated"
    /\ \E i \in DOMAIN valid_race_ids :
          DayOf(valid_race_ids[i]) > 1 /\ RaceOf(valid_race_ids[i]) > 1
    /\ \E i \in DOMAIN valid_race_ids : KaiOf(valid_race_ids[i]) > 1

\* the identifiers of all places, meetings, days and races
CodecIds ==
    { RaceId(year_str, pl, k, d, r) :
        pl \in Range(PLACE_DICT_keys), k \in 1..LastKai, d \in 1..LastDay,
        r \in 1..LastRace }

\* two decimal digits, zero-padded, of n
TwoDigits(n) == <<n \div 10, n % 10>>

\* C19 (identifier encoding round trip): the identifier built for a place
\* of PLACE_DICT, a meeting in 1..6, a day in 1..12 and a race in 1..12 is
\* 12 digits: the year, the place, and meeting, day and race on two digits
\* each; the slices [4:6], [6:8], [8:10], [10:12] give back place, meeting,
\* day and race; different coordinates give different identifiers.
EncodingRoundTrip ==
    /\ pc \in {"slice", "sliced"} =>
          LET race_id == valid_race_ids[1] IN
          /\ Len(race_id) = 12
          /\ \A i \in DOMAIN race_id : race_id[i] \in 0..9
          /\ race_id = year_str \o places[1] \o TwoDigits(kai)
                           \o TwoDigits(day) \o TwoDigits(race_num)
    /\ pc = "sliced" =>
          all_results[1] = [place_code |-> places[1], kai |-> kai,
                            day |-> day, race_number |-> race_num]
    /\ pc \in {"build", "slice", "sliced"} =>
          Cardinality(CodecIds)
              = Len(PLACE_DICT_keys) * LastKai * LastDay * LastRace

\* the identifier of the last meeting, a day and a race of two digits was
\* built and read back
WitnessEncodingRoundTrip ==
    /\ pc = "sliced"
    /\ places = <<PLACE_DICT_keys[10]>>
    /\ kai = LastKai /\ day = LastDay /\ race_num >= 10

(***************************************************************************)
(* Properties of a run and of its resumption                               *)
(***************************************************************************)
\* C4 (resume does not re-probe): no probe is issued for an identifier that
\* was in the progress file when the invocation started.
ResumeDoesNotReprobe ==
    \A i \in DOMAIN probes : probes[i].id \notin Range(log0)

\* the identifiers recorded in the progress file that exist on the site
Discovered ==
    {id \in Range(progress_file) : id \in DOMAIN site /\ site[id] = "Present"}

\* What an invocation with these places keeps of the entries ids of a
\* progress file: all of them, or with one place given those of the other
\* places
Kept(ids, pl) ==
    IF ResetsPlace(pl, ids) THEN OtherIds(ids, year_str \o pl[1]) ELSE ids

RECURSIVE UninterruptedFrom(_, _, _)
\* What one uninterrupted invocation appends of the identifiers ids it
\* generated, count of them having given a result so far and skip being
\* skipped: every identifier not skipped, up to the one whose result reaches
\* max_races
UninterruptedFrom(ids, count, skip) ==
    IF ids = <<>> THEN {}
    ELSE IF Head(ids) \in skip THEN UninterruptedFrom(Tail(ids), count, skip)
    ELSE LET id == Head(ids)
             c  == IF id \in DOMAIN fetch_site /\ fetch_site[id] = "df"
                   THEN count + 1 ELSE count
         IN {id} \cup (IF max_races > 0 /\ c >= max_races THEN {}
                       ELSE UninterruptedFrom(Tail(ids), c, skip))

\* the discovered set of one uninterrupted invocation started with the
\* progress file entries ids, for the places and the site of this invocation
UninterruptedResult(ids) ==
    {id \in Kept(ids, places)
            \cup UninterruptedFrom(valid_race_ids, 0, Kept(ids, places)) :
        id \in DOMAIN site /\ site[id] = "Present"}

\* the previous invocation was killed in its item loop and this one, with
\* the same places, has run to completion
Resumed ==
    /\ pc = "done"
    /\ prev.interrupted
    /\ prev.places = places

\* C5 (resume equivalence): after an interruption in the item loop and a
\* second invocation with the same year and places run to completion, the
\* discovered set is the one of a single uninterrupted invocation started
\* where the interrupted one started.
ResumeEquivalence == Resumed => Discovered = UninterruptedResult(prev.ids0)

\* C5 as amended: the same when no --max_races limit is set.  (An
\* invocation that ends without having been killed records
\* UninterruptedResult of the file it started with, limit or not.)
ResumeEquivalenceNoLimit ==
    /\ pc = "done" => Discovered = UninterruptedResult(Range(log0))
    /\ (Resumed /\ max_races = NoMaxRaces)
          => Discovered = UninterruptedResult(prev.ids0)

\* a two-place run was killed after its first append and the second
\* invocation skipped that identifier and recorded the others
WitnessResumeEquivalence ==
    /\ Resumed
    /\ max_races = NoMaxRaces
    /\ Len(places) = 2
    /\ log0 # <<>>
    /\ appended # <<>>
    /\ Len(valid_race_ids) = Len(log0) + Len(appended)

\* C6 (append ordering): the identifiers this invocation has appended to the
\* progress file are, in order, identifiers whose scrape_race_results call
\* has returned; the file holds nothing else beyond what it held at the start.
AppendOrdering ==
    /\ Len(appended) <= Len(fetched)
    /\ \A i \in DOMAIN appended : appended[i] = fetched[i]
    /\ Range(progress_file) \subseteq Range(log0) \cup Range(fetched)

\* an identifier whose fetch returned no result has been appended
WitnessAppendOrdering ==
    \E i \in DOMAIN appended :
        /\ fetch_site[appended[i]] # "df"
        /\ appended[i] \in Range(progress_file)

\* C7 (skip of checkpointed work): an identifier that was in the progress
\* file when the invocation started (no --reset_progress) is neither fetched
\* nor appended again.
SkipCheckpointed ==
    \A id \in Range(log0) : id \notin Range(fetched) /\ id \notin Range(appended)

\* C8 (Absent identifiers are checkpointed): when the invocation has ended,
\* every identifier it probed and found Absent is in the progress file.
AbsentCheckpointed ==
    pc = "done" =>
        \A i \in DOMAIN probes :
            probes[i].verdict = "Absent" => probes[i].id \in Range(progress_file)

(***************************************************************************)
(* Properties of the item loop                                             *)
(***************************************************************************)
\* the positions of generate_race_ids_efficiently
TraversalPcs == {"meeting_first", "day1_race", "day_first", "day_race"}

\* C15 (lazy, one-at-a-time discovery): while the traversal is still
\* probing, every identifier it has found valid before the latest probe has
\* already been fetched and is in the progress file.
LazyDiscovery ==
    pc \in TraversalPcs =>
        \A j \in 1..(Len(probes) - 1) :
            probes[j].ret =>
                /\ probes[j].id \in Range(fetched)
                /\ probes[j].id \in Range(progress_file)

\* C16 (max_races): with --max_races N the number of results is never above
\* N; once it is N the item that gave the N-th result is the last one
\* fetched, the loop does not start another item, and the loop is not left
\* before that item is in the progress file.
MaxItemsCap ==
    max_races > 0 =>
        /\ valid_count <= max_races
        /\ Len(all_results) = valid_count
        /\ valid_count = max_races =>
              /\ pc \in {"record", "batch", "done"}
              /\ fetched[Len(fetched)] = all_results[Len(all_results)]
              /\ pc \in {"batch", "done"} =>
                    /\ appended # <<>>
                    /\ appended[Len(appended)] = fetched[Len(fetched)]
                    /\ progress_file[Len(progress_file)] = fetched[Len(fetched)]

\* the run has ended on reaching --max_races, with an identifier found
\* valid left unfetched
WitnessMaxItemsCap ==
    /\ max_races > 0
    /\ pc = "done"
    /\ valid_count = max_races
    /\ idx < Len(valid_race_ids)
    /\ valid_race_ids[idx + 1] \notin Range(progress_file)

\* meeting, day and race of an identifier as one number: digits 7 to 12
Key(race_id) == ParseInt(SubSeq(race_id, 7, 12))

IsValid(probe) == probe.ret

NotSkipped(race_id) == race_id \notin skip_ids

\* The calls of is_valid_race go through the places in the order given and
\* within a place through meeting, day and race upwards; the identifiers
\* returned are those found valid, in the order of the calls; the item loop
\* fetches those not skipped in that order
OrderOfTraversal ==
    /\ \A i \in DOMAIN probes :
          /\ PlaceOf(probes[i].id) = GenPlaces[probes[i].at]
          /\ i < Len(probes) =>
                \/ probes[i].at < probes[i + 1].at
                \/ /\ probes[i].at = probes[i + 1].at
                   /\ Key(probes[i].id) < Key(probes[i + 1].id)
    /\ valid_race_ids
          = [i \in 1..Len(valid_race_ids) |-> SelectSeq(probes, IsValid)[i].id]
    /\ Len(fetched) <= Len(SelectSeq(valid_race_ids, NotSkipped))
    /\ fetched = SubSeq(SelectSeq(valid_race_ids, NotSkipped), 1, Len(fetched))
    /\ Len(appended) <= Len(fetched)
    /\ appended = SubSeq(fetched, 1, Len(appended))

\* within one place the identifiers returned are strictly increasing in
\* (meeting, day, race)
IncreasingWithinPlace ==
    \A i, j \in DOMAIN valid_race_ids :
        (i < j /\ PlaceOf(valid_race_ids[i]) = PlaceOf(valid_race_ids[j]))
            => Key(valid_race_ids[i]) < Key(valid_race_ids[j])

\* no place is named twice in places
NoPlaceTwice == \A i, j \in DOMAIN GenPlaces : i # j => GenPlaces[i] # GenPlaces[j]

NoRepeat(seq) == \A i, j \in DOMAIN seq : i # j => seq[i] # seq[j]

\* C29 (at most one fetch per identifier per run): within one invocation,
\* whatever --places is, a place given twice included, no identifier is
\* fetched twice and none is appended to the progress file twice.
OneFetchPerIdentifier == NoRepeat(fetched) /\ NoRepeat(appended)

\* the same for the invocations in which no place is given twice
OneFetchPerIdentifierNoPlaceTwice == NoPlaceTwice => OneFetchPerIdentifier

\* C20 (malformed response): an identifier whose scrape_race_results call
\* returned no result is not in all_results, is written to the progress
\* file as the items with a result are, and the loop goes on with the next
\* identifier and is not left because of it.
MalformedResponse ==
    /\ \A i \in DOMAIN fetched :
          fetch_site[fetched[i]] # "df" =>
              /\ fetched[i] \notin Range(all_results)
              /\ (i < Len(fetched) \/ pc \in {"batch", "loop_head", "done"})
                    => /\ i <= Len(appended)
                       /\ appended[i] = fetched[i]
                       /\ fetched[i] \in Range(progress_file)
    /\ ( /\ pc = "done"
         /\ fetched # <<>>
         /\ fetch_site[fetched[Len(fetched)]] # "df" )
       => idx > Len(valid_race_ids)

\* a page from which no result table could be read was followed by the
\* fetch of the next identifier
WitnessMalformedResponse ==
    \E i \in DOMAIN fetched :
        /\ fetch_site[fetched[i]] = "no_table"
        /\ i < Len(fetched)
        /\ fetched[i] \in Range(progress_file)

\* the identifiers whose result is in a snapshot or in a final file of main
DurableResults ==
    UNION {Range(f.results) : f \in snapshots}
        \cup UNION {Range(f.results) : f \in outputs}

\* C27 (no checkpointed record is lost): after an invocation for several
\* places killed in its item loop and a second one for the same places run
\* to completion, no reset asked for, every identifier of the progress file
\* whose fetch gave a result has its result in a snapshot or in a final file.
NoCheckpointedRecordLost ==
    (pc = "ended" /\ prev.interrupted /\ prev.places = places
        /\ Len(places) >= 2 /\ ~reset_progress)
        => \A id \in Range(progress_file) :
              (id \in DOMAIN fetch_site /\ fetch_site[id] = "df")
                  => id \in DurableResults

(***************************************************************************)
(* Properties of the batches, the pauses and the snapshots                 *)
(***************************************************************************)
\* C21 (checkpoint I/O error is fatal): when the append of an identifier to
\* the progress file has failed, the invocation has ended; the identifier
\* whose append failed is the last one fetched, nothing was appended after
\* it, and the progress file holds the file of the start followed by the
\* identifiers appended before the failure.
AppendFailureFatal ==
    raised = "append" =>
        /\ pc \in {"done", "ended"}
        /\ fetched # <<>>
        /\ appended = SubSeq(fetched, 1, Len(fetched) - 1)
        /\ progress_file = log0 \o appended

\* an append failed after another had succeeded, with identifiers found
\* valid left unfetched
WitnessAppendFailureFatal ==
    /\ raised = "append"
    /\ appended # <<>>
    /\ idx < Len(valid_race_ids)

\* C22 (snapshot names never collide): the names of the files the calls of
\* save_intermediate_results of one invocation wrote, the call of the
\* exception handler included, are pairwise different.
SnapshotNamesDistinct ==
    \A i, j \in DOMAIN saved : i # j => saved[i] # saved[j]

\* the same for the invocations whose --pause is not negative
SnapshotNamesDistinctValidPause ==
    pause_between_batches >= 0 => SnapshotNamesDistinct

\* the items processed to their end: those not skipped, the one being
\* processed left out
ItemsProcessed ==
    IF pc \in {"scrape", "record", "batch"} THEN processed_count - 1
    ELSE processed_count

\* C23 (inter-batch pause): in an invocation with a pause that is not
\* negative and no exception, the pauses between batches were taken after
\* the processed items number batch_size, 2 * batch_size, ... up to the
\* items processed so far, each before the next item is fetched, and at no
\* other point; an item counts as processed whether or not its fetch gave a
\* result.
InterBatchPause ==
    (pause_between_batches >= 0 /\ raised = "none")
        => pauses = [i \in 1..(ItemsProcessed \div batch_size) |-> i * batch_size]

\* the same where every fetch so far has given a result
InterBatchPauseAllResults ==
    (\A i \in DOMAIN fetched : fetch_site[fetched[i]] = "df") => InterBatchPause

GaveResult(race_id) == fetch_site[race_id] = "df"

GaveRaceInfo(race_id) == fetch_site[race_id] # "error"

ConfigurationError ==
    \/ batch_size <= 0
    \/ pause_between_batches < 0
    \/ places # None /\ \E i \in DOMAIN places :
                            places[i] \notin Range(PLACE_DICT_keys)

\* C25 (configuration errors fail fast): an invocation whose options are
\* outside their ranges issues no probe and no fetch and leaves the progress
\* file as it found it.
ConfigurationFailFast ==
    (pc # "idle" /\ ConfigurationError)
        => /\ probes = <<>>
           /\ fetched = <<>>
           /\ progress_file = log0
           /\ ~progress_exists

(***************************************************************************)
(* Properties of the resets of the progress file                           *)
(***************************************************************************)
\* The places whose entries the invocation resets: those of --places with
\* --reset_progress and a progress file, the single place of --places when
\* the file has entries of it
ResetPlacesOf ==
    IF reset_progress /\ places # None /\ log0 # <<>> THEN Range(places)
    ELSE IF ResetsPlace(places, Range(log0)) THEN {places[1]}
    ELSE {}

NotReset(race_id) == PlaceOf(race_id) \notin ResetPlacesOf

\* the progress file of the start without the entries of the places reset
FilteredLog == SelectSeq(log0, NotReset)

\* C13 (reset scoping): once the resets of an invocation are done (both the
\* one of main and the one of scrape_races_by_id_pattern_efficient), the
\* progress file is the file of the start without the entries of the places
\* reset: the other entries are all there, unchanged and in unchanged order.
ResetScoping ==
    (pc = "meeting_first" /\ ~crashed) => progress_file = FilteredLog

\* C26 (no implicit reset): an invocation started without --reset_progress
\* removes no entry from the progress file, whatever --places is: every
\* identifier of the file of the start is in the file at every later point.
NoImplicitReset ==
    (pc # "idle" /\ ~reset_progress)
        => Range(log0) \subseteq Range(progress_file)

\* C14 (atomic reset): a process killed at a step of a reset leaves at the
\* path of the progress file either the whole file of the start or the whole
\* filtered file.
AtomicReset ==
    (crashed /\ pc \in ResetPcs \cup {"rewrite"})
        => /\ progress_exists
           /\ progress_file = log0 \/ progress_file = FilteredLog

====
